---- MODULE Spec2Model ----
(***************************************************************************)
(* Model of log-quality-toolkit: the schema validators and the row loop of *)
(* validation.py, and the file loaders of loader.py.                       *)
(*                                                                         *)
(* The program is single threaded.  The state is that of one interpreter:  *)
(* which function is running (pc), its arguments and locals, and what it   *)
(* returned or raised.  A function call is one action for a pure function  *)
(* and one action per loop iteration for the two loops.                    *)
(***************************************************************************)
EXTENDS Integers, Sequences, FiniteSets, TLC

VARIABLES
    pc,              \* which function runs / how the last call ended
    call,            \* the call made from the idle interpreter: [fn, ...args]
    result,          \* outcome of a finished call: returned value or raised exception
    df,              \* validate_and_clean: the DataFrame argument
    row_i,           \* validate_and_clean: number of rows itertuples() has yielded and the body finished
    clean_rows,      \* validate_and_clean: list of accepted record dicts
    clean_index,     \* row.Index of each element of clean_rows (history, not in the code)
    bad_rows_list,   \* validate_and_clean: list of quarantine entries
    error_counts,    \* validate_and_clean: dict of counters
    evaluated,       \* validators run inside the try of the last iteration, with outcomes (history)
    file_paths,      \* load_all_logs: the list argument, each entry with what reading it yields
    path_i,          \* load_all_logs: number of list entries the for loop has consumed
    all_dataframes,  \* load_all_logs: list of loaded DataFrames
    all_errors,      \* load_all_logs: list of error dicts
    loads            \* outcome of every load_logs call made so far (history)

vars == <<pc, call, result, df, row_i, clean_rows, clean_index, bad_rows_list,
          error_counts, evaluated, file_paths, path_i, all_dataframes,
          all_errors, loads>>

(***************************************************************************)
(* Bounds of the model.                                                    *)
(***************************************************************************)
MaxRows == 2
MaxPaths == 2

(***************************************************************************)
(* Python values.  A str is the sequence of its characters.                *)
(***************************************************************************)
None == [t |-> "NoneType"]
NaN == [t |-> "float"]
PyInt(n) == [t |-> "int", n |-> n]
Str(s) == [t |-> "str", s |-> s]
True == [t |-> "bool"]

IsStr(v) == v.t = "str"
IsNone(v) == v.t = "NoneType"

\* bool(value): None, "" and 0 are falsy; NaN and True are truthy.
Truthy(v) ==
    CASE v.t = "NoneType" -> FALSE
      [] v.t = "str" -> Len(v.s) > 0
      [] v.t = "int" -> v.n # 0
      [] OTHER -> TRUE

\* len(value) of a str
PyLen(v) == Len(v.s)

\* type(value).__name__
TypeName(v) == v.t

(***************************************************************************)
(* Outcome of a call: a returned value or a raised exception.              *)
(***************************************************************************)
Return(v) == [kind |-> "return", cls |-> v.t, msg |-> <<>>]
Raise(cls, msg) == [kind |-> "raise", cls |-> cls, msg |-> msg]

\* The exception classes of validation.py and their bases.
Bases(cls) ==
    CASE cls = "user_error" -> {"user_error", "SchemaError", "Exception"}
      [] cls = "SchemaError" -> {"SchemaError", "Exception"}
      [] cls = "TimestampParseError" -> {"TimestampParseError", "Exception"}
      [] cls = "FileFormatError" -> {"FileFormatError", "Exception"}
      [] cls = "FileNotFoundError" -> {"FileNotFoundError", "OSError", "Exception"}
      [] cls = "ParserError" -> {"ParserError", "ValueError", "Exception"}
      [] cls = "JSONDecodeError" -> {"JSONDecodeError", "ValueError", "Exception"}
      [] cls = "UnicodeDecodeError" -> {"UnicodeDecodeError", "ValueError", "Exception"}
      [] cls = "UnboundLocalError" -> {"UnboundLocalError", "NameError", "Exception"}
      [] OTHER -> {cls, "Exception"}

\* isinstance(e, base), as an except clause tests it
IsInstance(cls, base) == base \in Bases(cls)

(***************************************************************************)
(* AUTH_LOG_SCHEMA: a dict, iterated in declaration order.                 *)
(***************************************************************************)
Fmt1 == <<"%Y", "-", "%m", "-", "%d", " ", "%H", ":", "%M", ":", "%S">>
Fmt2 == <<"%Y", "-", "%m", "-", "%d", "T", "%H", ":", "%M", ":", "%S", "Z">>
Fmt3 == <<"%Y", "-", "%m", "-", "%d", " ", "%H", ":", "%M", ":", "%S", ".", "%f">>

min_length == 1
max_length == 256

SchemaOrder == <<"timestamp", "user", "event_id", "src_ip", "dest_host", "action">>

AUTH_LOG_SCHEMA ==
    [timestamp |-> [required |-> TRUE, formats |-> <<Fmt1, Fmt2, Fmt3>>],
     user      |-> [required |-> TRUE, formats |-> <<>>],
     event_id  |-> [required |-> FALSE, formats |-> <<>>],
     src_ip    |-> [required |-> FALSE, formats |-> <<>>],
     dest_host |-> [required |-> FALSE, formats |-> <<>>],
     action    |-> [required |-> FALSE, formats |-> <<>>]]

(***************************************************************************)
(* datetime.strptime(value, fmt).  The format is compiled to a regular     *)
(* expression, one group per directive, matched at the start of the value  *)
(* with backtracking in the order of the alternatives and ignoring case;   *)
(* text left over after the match, or a date or time out of range, is a    *)
(* ValueError.                                                             *)
(***************************************************************************)
Digits == {"0", "1", "2", "3", "4", "5", "6", "7", "8", "9"}
Digits19 == Digits \ {"0"}
Whitespace == {" ", "\t"}

DigitVal(c) ==
    CASE c = "0" -> 0 [] c = "1" -> 1 [] c = "2" -> 2 [] c = "3" -> 3
      [] c = "4" -> 4 [] c = "5" -> 5 [] c = "6" -> 6 [] c = "7" -> 7
      [] c = "8" -> 8 [] c = "9" -> 9 [] OTHER -> 0

\* int(text) of a matched group; the %d group may start with a blank
RECURSIVE ToInt(_)
ToInt(text) ==
    IF text = <<>> THEN 0
    ELSE ToInt(SubSeq(text, 1, Len(text) - 1)) * 10 + DigitVal(text[Len(text)])

\* Both cases of a literal letter of a format (re.IGNORECASE)
BothCases(c) ==
    CASE c = "T" -> {"T", "t"}
      [] c = "Z" -> {"Z", "z"}
      [] OTHER -> {c}

\* The alternatives of one format token, in the order the regex tries them;
\* an alternative is a sequence of character classes.  room is the number
\* of characters left in the value.
Alternatives(tok, room) ==
    CASE tok = "%Y" -> << <<Digits, Digits, Digits, Digits>> >>
      [] tok = "%m" -> << <<{"1"}, {"0", "1", "2"}>>, <<{"0"}, Digits19>>, <<Digits19>> >>
      [] tok = "%d" -> << <<{"3"}, {"0", "1"}>>, <<{"1", "2"}, Digits>>,
                          <<{"0"}, Digits19>>, <<Digits19>>, <<{" "}, Digits19>> >>
      [] tok = "%H" -> << <<{"2"}, {"0", "1", "2", "3"}>>, <<{"0", "1"}, Digits>>, <<Digits>> >>
      [] tok = "%M" -> << <<{"0", "1", "2", "3", "4", "5"}, Digits>>, <<Digits>> >>
      [] tok = "%S" -> << <<{"6"}, {"0", "1"}>>,
                          <<{"0", "1", "2", "3", "4", "5"}, Digits>>, <<Digits>> >>
      [] tok = "%f" -> [a \in 1..6 |-> [i \in 1..(7 - a) |-> Digits]]
      [] tok = " "  -> [a \in 1..room |-> [i \in 1..(room - a + 1) |-> Whitespace]]
      [] OTHER -> << <<BothCases(tok)>> >>

AltMatches(v, pos, alt) ==
    /\ pos + Len(alt) - 1 <= Len(v)
    /\ \A i \in 1..Len(alt) : v[pos + i - 1] \in alt[i]

NoMatch == [ok |-> FALSE, end |-> 0, groups |-> <<>>]

\* The first match of tokens k.. of fmt at position pos of v.
RECURSIVE MatchTokens(_, _, _, _), TryAlts(_, _, _, _, _, _)
MatchTokens(v, pos, fmt, k) ==
    IF k > Len(fmt) THEN [ok |-> TRUE, end |-> pos, groups |-> <<>>]
    ELSE TryAlts(v, pos, fmt, k, Alternatives(fmt[k], Len(v) - pos + 1), 1)

TryAlts(v, pos, fmt, k, alts, a) ==
    IF a > Len(alts) THEN NoMatch
    ELSE IF AltMatches(v, pos, alts[a])
         THEN LET rest == MatchTokens(v, pos + Len(alts[a]), fmt, k + 1)
                  text == SubSeq(v, pos, pos + Len(alts[a]) - 1)
              IN  IF rest.ok
                  THEN [ok |-> TRUE, end |-> rest.end,
                        groups |-> <<[d |-> fmt[k], text |-> text]>> \o rest.groups]
                  ELSE TryAlts(v, pos, fmt, k, alts, a + 1)
         ELSE TryAlts(v, pos, fmt, k, alts, a + 1)

\* The integer a directive's group holds (0 when the format lacks it)
Group(groups, d) ==
    LET hits == {i \in 1..Len(groups) : groups[i].d = d}
    IN  IF hits = {} THEN 0
        ELSE LET t == groups[CHOOSE i \in hits : TRUE].text
             IN  ToInt(IF t[1] = " " THEN Tail(t) ELSE t)

IsLeap(y) == (y % 4 = 0 /\ y % 100 # 0) \/ y % 400 = 0

DaysInMonth(y, m) ==
    CASE m \in {4, 6, 9, 11} -> 30
      [] m = 2 -> IF IsLeap(y) THEN 29 ELSE 28
      [] OTHER -> 31

\* TRUE when datetime.strptime(s, fmt) returns, FALSE when it raises ValueError
strptime(s, fmt) ==
    LET m == MatchTokens(s, 1, fmt, 1)
    IN  /\ m.ok
        /\ m.end = Len(s) + 1
        /\ Group(m.groups, "%Y") >= 1
        /\ Group(m.groups, "%d") <= DaysInMonth(Group(m.groups, "%Y"), Group(m.groups, "%m"))
        /\ Group(m.groups, "%S") <= 59

(***************************************************************************)
(* The validators of validation.py.                                        *)
(***************************************************************************)
\* An exception instance that is a value, not a raised exception
ExcObj(cls) == [t |-> cls]

\* Mutant of TryFormats: a format that fails to parse ends the loop
TryFirstFormatOnly(value, formats, k) ==
    IF k <= Len(formats) /\ strptime(value.s, formats[k])
    THEN Return(True)
    ELSE Raise("TimestampParseError", <<"Timestamp does not match any known formats">>)

\* for fmt in formats: return True on the first format that parses,
\* continue on ValueError, raise once every format has failed
RECURSIVE TryFormats(_, _, _)
TryFormats(value, formats, k) ==
    IF k > Len(formats)
    THEN Raise("TimestampParseError", <<"Timestamp does not match any known formats">>)
    ELSE IF strptime(value.s, formats[k])
         THEN Return(True)
         ELSE TryFormats(value, formats, k + 1)

\* The body of validate_timestamp with the format list as a parameter
validate_timestamp_with(value, formats) ==
    IF ~Truthy(value) \/ ~IsStr(value)
    THEN Return(ExcObj("TimestampParseError"))
    ELSE TryFormats(value, formats, 1)

validate_timestamp(value) ==
    validate_timestamp_with(value, AUTH_LOG_SCHEMA.timestamp.formats)

\* Mutant of validate_user: the upper bound is exclusive
validate_user_exclusive(value) ==
    IF ~IsStr(value)
    THEN Raise("user_error", <<"User must be a string, got", TypeName(value)>>)
    ELSE IF ~(min_length <= PyLen(value) /\ PyLen(value) < max_length)
         THEN Raise("user_error", <<"User must be between", "min_length", "max_length">>)
         ELSE Return(True)

validate_user(value) ==
    IF ~IsStr(value)
    THEN Raise("user_error", <<"User must be a string, got", TypeName(value)>>)
    ELSE IF ~(min_length <= PyLen(value) /\ PyLen(value) <= max_length)
         THEN Raise("user_error", <<"User must be between", "min_length", "max_length">>)
         ELSE Return(True)

\* Mutant of CheckRequired: the required flag is not consulted
RECURSIVE CheckEveryField(_, _)
CheckEveryField(record, k) ==
    IF k > Len(SchemaOrder) THEN Return(True)
    ELSE LET field == SchemaOrder[k]
         IN  IF field \notin DOMAIN record \/ IsNone(record[field])
             THEN Raise("SchemaError", <<"Missing required field:", field>>)
             ELSE CheckEveryField(record, k + 1)

\* for field, props in AUTH_LOG_SCHEMA.items(): raise on the first required
\* field that is not a key of the record or whose value is None
RECURSIVE CheckRequired(_, _)
CheckRequired(record, k) ==
    IF k > Len(SchemaOrder) THEN Return(True)
    ELSE LET field == SchemaOrder[k]
         IN  IF /\ AUTH_LOG_SCHEMA[field].required
                /\ (field \notin DOMAIN record \/ IsNone(record[field]))
             THEN Raise("SchemaError", <<"Missing required field:", field>>)
             ELSE CheckRequired(record, k + 1)

validate_required_fields(record) == CheckRequired(record, 1)

(***************************************************************************)
(* The values the calls are made with.                                     *)
(***************************************************************************)
TsSpace == <<"2","0","2","5","-","0","1","-","0","2"," ","1","5",":","0","4",":","0","5">>
TsIsoZ == <<"2","0","2","5","-","0","1","-","0","2","T","1","5",":","0","4",":","0","5","Z">>
TsMicro == <<"2","0","2","5","-","0","1","-","0","2"," ","1","5",":","0","4",":","0","5",".","1","2","3","4","5","6">>
TsGarbage == <<"n","o","t","-","a","-","t","i","m","e","s","t","a","m","p">>
TsFeb30 == <<"2","0","2","5","-","0","2","-","3","0"," ","1","0",":","0","0",":","0","0">>
TsShort == <<"2","0","2","5","-","1","-","2"," ","3",":","0","4",":","0","5">>
TsMicro7 == <<"2","0","2","5","-","0","1","-","0","2"," ","1","5",":","0","4",":","0","5",".","1","2","3","4","5","6","7">>
TsLowerIso == <<"2","0","2","5","-","0","1","-","0","2","t","1","5",":","0","4",":","0","5","z">>
TsSec60 == <<"2","0","2","5","-","0","1","-","0","2"," ","1","5",":","0","4",":","6","0">>
TsTrailing == <<"2","0","2","5","-","0","1","-","0","2"," ","1","5",":","0","4",":","0","5"," ">>
TsLeap == <<"2","0","2","4","-","0","2","-","2","9"," ","0","0",":","0","0",":","0","0">>
Alice == <<"a","l","i","c","e">>

\* "a" * n
Repeat(n) == [i \in 1..n |-> "a"]

TimestampStrings ==
    {TsSpace, TsIsoZ, TsMicro, TsGarbage, TsFeb30, TsShort, TsMicro7,
     TsLowerIso, TsSec60, TsTrailing, TsLeap}

TimestampInputs ==
    {None, NaN, PyInt(0), PyInt(12345), Str(<<>>)} \cup {Str(s) : s \in TimestampStrings}

UserInputs ==
    {None, NaN, PyInt(12345), Str(<<>>), Str(Repeat(min_length)), Str(Alice),
     Str(Repeat(max_length)), Str(Repeat(max_length + 1))}

\* dicts over some of these keys, each value None, "" or a valid value
RecordKeys == {"timestamp", "user", "event_id"}
RecordInputs ==
    UNION {[K -> {None, Str(<<>>), Str(TsSpace)}] : K \in SUBSET RecordKeys}

\* A field name as a Python value (the quarantine entry's 'field' is a name or None)
Name(f) == [t |-> "str", name |-> f]

(***************************************************************************)
(* DataFrames: the column names and the rows, each row a value per column. *)
(* The default index is 0, 1, 2, ...                                       *)
(***************************************************************************)
SrcIp == <<"1","0",".","0",".","0",".","1">>
Host == <<"h","o","s","t">>
EventId == <<"e","v","1","2","3">>
Success == <<"s","u","c","c","e","s","s">>

\* The attributes the loop of validate_and_clean reads from each row, in order
RowAttrs == <<"timestamp", "user", "src_ip", "dest_host", "action_id", "action">>
LoopColumns == {RowAttrs[a] : a \in 1..Len(RowAttrs)}
\* The columns of a frame that follows the declared schema
SchemaColumns == {SchemaOrder[a] : a \in 1..Len(SchemaOrder)}

TimestampCells == {None, NaN, Str(<<>>), Str(TsSpace), Str(TsGarbage)}
UserCells == {None, PyInt(12345), Str(<<>>), Str(Alice), Str(Repeat(max_length + 1))}

\* The cell of a column other than timestamp and user
OtherCell(column) ==
    CASE column = "src_ip" -> Str(SrcIp)
      [] column = "dest_host" -> Str(Host)
      [] column \in {"action_id", "event_id"} -> Str(EventId)
      [] OTHER -> Str(Success)

RowsOf(columns) ==
    {[c \in columns |-> CASE c = "timestamp" -> ts
                          [] c = "user" -> user
                          [] OTHER -> OtherCell(c)] :
        ts \in TimestampCells, user \in UserCells}

SeqsUpTo(S, n) == UNION {[1..m -> S] : m \in 0..n}

Frames ==
    {[columns |-> columns, rows |-> rows] :
        columns \in {LoopColumns}, rows \in SeqsUpTo(RowsOf(LoopColumns), MaxRows)}
    \cup
    {[columns |-> columns, rows |-> rows] :
        columns \in {SchemaColumns},
        rows \in SeqsUpTo({row \in RowsOf(SchemaColumns) :
                              /\ row["timestamp"] = Str(TsSpace)
                              /\ row["user"] \in {None, Str(Alice)}}, MaxRows)}

(***************************************************************************)
(* The interpreter before any call.                                        *)
(***************************************************************************)
NoCall == [fn |-> "none"]
NoResult == [kind |-> "none", cls |-> "none", msg |-> <<>>]
EmptyFrame == [columns |-> {}, rows |-> <<>>]
ZeroCounts ==
    [missing_required_fields |-> 0, timestamp_errors |-> 0, user_errors |-> 0,
     src_ip_errors |-> 0, action_errors |-> 0, other_schema_errors |-> 0]

Init ==
    /\ pc = "idle"
    /\ call = NoCall
    /\ result = NoResult
    /\ df = EmptyFrame
    /\ row_i = 0
    /\ clean_rows = <<>>
    /\ clean_index = <<>>
    /\ bad_rows_list = <<>>
    /\ error_counts = ZeroCounts
    /\ evaluated = <<>>
    /\ file_paths = <<>>
    /\ path_i = 0
    /\ all_dataframes = <<>>
    /\ all_errors = <<>>
    /\ loads = <<>>

vacVars == <<df, row_i, clean_rows, clean_index, bad_rows_list, error_counts, evaluated>>
loaderVars == <<file_paths, path_i, all_dataframes, all_errors, loads>>

(***************************************************************************)
(* Direct calls of the validators (tests/test_validate_*.py).              *)
(***************************************************************************)
CallValidateTimestamp ==
    /\ pc = "idle"
    /\ \E value \in TimestampInputs :
          /\ call' = [fn |-> "validate_timestamp", arg |-> value]
          /\ result' = validate_timestamp(value)
    /\ pc' = "done"
    /\ UNCHANGED <<vacVars, loaderVars>>

CallValidateUser ==
    /\ pc = "idle"
    /\ \E value \in UserInputs :
          /\ call' = [fn |-> "validate_user", arg |-> value]
          /\ result' = validate_user(value)
    /\ pc' = "done"
    /\ UNCHANGED <<vacVars, loaderVars>>

CallValidateRequiredFields ==
    /\ pc = "idle"
    /\ \E record \in RecordInputs :
          /\ call' = [fn |-> "validate_required_fields", arg |-> record]
          /\ result' = validate_required_fields(record)
    /\ pc' = "done"
    /\ UNCHANGED <<vacVars, loaderVars>>

(***************************************************************************)
(* validate_and_clean(df): one action per iteration of the row loop.       *)
(***************************************************************************)
\* record = {'timestamp': row.timestamp, ..., 'id': row.action_id, ...}:
\* reading an attribute the frame has no column for raises AttributeError.
MissingAttrs(frame) == {a \in 1..Len(RowAttrs) : RowAttrs[a] \notin frame.columns}

FirstMissingAttr(frame) ==
    RowAttrs[CHOOSE a \in MissingAttrs(frame) : \A b \in MissingAttrs(frame) : a <= b]

BuildRecord(row) ==
    [timestamp |-> row["timestamp"], user |-> row["user"], src_ip |-> row["src_ip"],
     dest_host |-> row["dest_host"], id |-> row["action_id"], action |-> row["action"]]

\* Mutant of TryBody: the timestamp is validated before the required fields
TryBodyTimestampFirst(record) ==
    LET required == validate_required_fields(record)
        timestamp == validate_timestamp(record["timestamp"])
        user == validate_user(record["user"])
    IN  IF timestamp.kind = "raise"
        THEN <<[fn |-> "validate_timestamp", out |-> timestamp]>>
        ELSE IF required.kind = "raise"
        THEN <<[fn |-> "validate_timestamp", out |-> timestamp],
               [fn |-> "validate_required_fields", out |-> required]>>
        ELSE <<[fn |-> "validate_timestamp", out |-> timestamp],
               [fn |-> "validate_required_fields", out |-> required],
               [fn |-> "validate_user", out |-> user]>>

\* The three validator calls of the try block, in order, up to the first
\* that raises: the calls made, each with its outcome.
TryBody(record) ==
    LET required == validate_required_fields(record)
        timestamp == validate_timestamp(record["timestamp"])
        user == validate_user(record["user"])
    IN  IF required.kind = "raise"
        THEN <<[fn |-> "validate_required_fields", out |-> required]>>
        ELSE IF timestamp.kind = "raise"
        THEN <<[fn |-> "validate_required_fields", out |-> required],
               [fn |-> "validate_timestamp", out |-> timestamp]>>
        ELSE <<[fn |-> "validate_required_fields", out |-> required],
               [fn |-> "validate_timestamp", out |-> timestamp],
               [fn |-> "validate_user", out |-> user]>>

Last(seq) == seq[Len(seq)]

\* Mutant of CountSchemaError: the counter is left alone
CountNothing(counts) == counts

\* error_counts['missing_required_fields'] += 1
CountSchemaError(counts) ==
    [counts EXCEPT !.missing_required_fields = @ + 1]

\* The dict the except SchemaError clause appends to bad_rows_list
QuarantineEntry(index, record, e) ==
    LET message == e.msg
        field == IF /\ message[1] = "Missing required field:"
                    /\ message[2] \in DOMAIN AUTH_LOG_SCHEMA
                 THEN Name(message[2])
                 ELSE None
    IN  [row_index |-> index,
         field |-> field,
         error_type |-> "missing_required_fields",
         message |-> message,
         record_preview |-> [timestamp |-> record["timestamp"],
                             user |-> record["user"],
                             src_ip |-> record["src_ip"]]]

CallValidateAndClean ==
    /\ pc = "idle"
    /\ \E frame \in Frames : df' = frame
    /\ call' = [fn |-> "validate_and_clean"]
    /\ clean_rows' = <<>>
    /\ clean_index' = <<>>
    /\ bad_rows_list' = <<>>
    /\ error_counts' = ZeroCounts
    /\ row_i' = 0
    /\ evaluated' = <<>>
    /\ pc' = "vac_loop"
    /\ UNCHANGED <<result, loaderVars>>

\* The next row exists; row.Index is its position counted from 0
HasRow == pc = "vac_loop" /\ row_i < Len(df.rows)
Row == df.rows[row_i + 1]
RowIndex == row_i

\* A row attribute is missing: AttributeError leaves the function
VacRowAttributeError ==
    /\ HasRow
    /\ MissingAttrs(df) # {}
    /\ result' = Raise("AttributeError", <<"no attribute", FirstMissingAttr(df)>>)
    /\ evaluated' = <<>>
    /\ pc' = "done"
    /\ UNCHANGED <<call, df, row_i, clean_rows, clean_index, bad_rows_list,
                   error_counts, loaderVars>>

\* No validator raised: clean_rows.append(record)
VacRowClean ==
    /\ HasRow
    /\ MissingAttrs(df) = {}
    /\ LET record == BuildRecord(Row)
           trace == TryBody(record)
       IN  /\ Last(trace).out.kind = "return"
           /\ clean_rows' = Append(clean_rows, record)
           /\ clean_index' = Append(clean_index, RowIndex)
           /\ evaluated' = trace
    /\ row_i' = row_i + 1
    /\ UNCHANGED <<pc, call, result, df, bad_rows_list, error_counts, loaderVars>>

\* A validator raised a SchemaError (or a subclass): the except clause
VacRowSchemaError ==
    /\ HasRow
    /\ MissingAttrs(df) = {}
    /\ LET record == BuildRecord(Row)
           trace == TryBody(record)
           e == Last(trace).out
       IN  /\ e.kind = "raise"
           /\ IsInstance(e.cls, "SchemaError")
           /\ error_counts' = CountSchemaError(error_counts)
           /\ bad_rows_list' = Append(bad_rows_list, QuarantineEntry(RowIndex, record, e))
           /\ evaluated' = trace
    /\ row_i' = row_i + 1
    /\ UNCHANGED <<pc, call, result, df, clean_rows, clean_index, loaderVars>>

\* A validator raised something no except clause names: it leaves the function
VacRowUncaught ==
    /\ HasRow
    /\ MissingAttrs(df) = {}
    /\ LET record == BuildRecord(Row)
           trace == TryBody(record)
           e == Last(trace).out
       IN  /\ e.kind = "raise"
           /\ ~IsInstance(e.cls, "SchemaError")
           /\ result' = e
           /\ evaluated' = trace
    /\ pc' = "done"
    /\ UNCHANGED <<call, df, row_i, clean_rows, clean_index, bad_rows_list,
                   error_counts, loaderVars>>

\* The loop is over and the function body ends: the call returns None
VacReturn ==
    /\ pc = "vac_loop"
    /\ row_i = Len(df.rows)
    /\ result' = Return(None)
    /\ pc' = "done"
    /\ UNCHANGED <<call, vacVars, loaderVars>>

(***************************************************************************)
(* loader.py.  A source is a path together with what reading the file at   *)
(* that path does: "ok" (a DataFrame) or the exception the reader raises.  *)
(***************************************************************************)
PathCsv == <<"a",".","c","s","v">>
PathCsvSlash == <<"a",".","c","s","v","/">>
PathJson == <<"b",".","j","s","o","n">>
PathJsonl == <<"c",".","j","s","o","n","l">>
PathTxt == <<"d",".","t","x","t">>
ExtCsv == <<".","c","s","v">>
ExtJson == <<".","j","s","o","n">>
ExtJsonl == <<".","j","s","o","n","l">>

\* s.endswith(suffix)
EndsWith(s, suffix) ==
    /\ Len(suffix) <= Len(s)
    /\ SubSeq(s, Len(s) - Len(suffix) + 1, Len(s)) = suffix

DigitChar(d) ==
    CASE d = 0 -> "0" [] d = 1 -> "1" [] d = 2 -> "2" [] d = 3 -> "3" [] d = 4 -> "4"
      [] d = 5 -> "5" [] d = 6 -> "6" [] d = 7 -> "7" [] d = 8 -> "8" [] OTHER -> "9"

RECURSIVE IntToStr(_)
IntToStr(n) == IF n < 10 THEN <<DigitChar(n)>> ELSE IntToStr(n \div 10) \o <<DigitChar(n % 10)>>

\* str(value), as characters
PyStr(v) ==
    CASE v.t = "str" -> v.s
      [] v.t = "int" -> IntToStr(v.n)
      [] v.t = "NoneType" -> <<"N", "o", "n", "e">>
      [] OTHER -> <<"n", "a", "n">>

\* str(Path(s)): trailing slashes are dropped and the empty path is "."
RECURSIVE PathStr(_)
PathStr(s) ==
    IF s = <<>> THEN <<".">>
    ELSE IF Len(s) > 1 /\ s[Len(s)] = "/" THEN PathStr(SubSeq(s, 1, Len(s) - 1))
    ELSE s

\* The DataFrame a readable file holds: its rows name the file they come from
FrameOnDisk(path) ==
    IF EndsWith(path, ExtCsv)
    THEN [columns |-> {"timestamp", "user"},
          rows |-> <<[timestamp |-> Str(TsSpace), user |-> Str(path)],
                     [timestamp |-> Str(TsGarbage), user |-> Str(path)]>>]
    ELSE [columns |-> {"timestamp", "event_id"},
          rows |-> <<[timestamp |-> Str(TsIsoZ), event_id |-> Str(path)]>>]

\* pd.read_csv / pd.read_json on a file in state disk
Read(path, disk) ==
    IF disk = "ok" THEN [kind |-> "return", frame |-> FrameOnDisk(path)]
    ELSE [kind |-> "raise", cls |-> disk]

\* raise FileFormatError(file_path=..., error_code=..., original=...)
RaiseFileFormatError(file, code, original) ==
    [kind |-> "raise", cls |-> "FileFormatError", file |-> file,
     error_code |-> code, original |-> original]

\* An exception that is no FileFormatError leaving load_logs
RaiseOther(cls, file) ==
    [kind |-> "raise", cls |-> cls, file |-> file, error_code |-> "", original |-> "None"]

\* The except clauses of load_logs, in order.  The JSONDecodeError and
\* UnicodeDecodeError clauses bind no name, and their f-strings read e:
\* there e is an unbound local, so building the message raises
\* UnboundLocalError out of the handler.
ExceptClauses(cls, code, file) ==
    IF IsInstance(cls, "FileNotFoundError") THEN RaiseFileFormatError(file, "file_not_found", cls)
    ELSE IF IsInstance(cls, "ParserError") THEN RaiseFileFormatError(file, "parsing_error", cls)
    ELSE IF IsInstance(cls, "JSONDecodeError") THEN RaiseOther("UnboundLocalError", file)
    ELSE IF IsInstance(cls, "UnicodeDecodeError") THEN RaiseOther("UnboundLocalError", file)
    ELSE IF IsInstance(cls, "FileFormatError") THEN RaiseFileFormatError(file, code, "None")
    ELSE RaiseFileFormatError(file, "unknown", cls)

\* load_logs(file_path) with the file at that path in state disk
load_logs(file_path, disk) ==
    IF IsNone(file_path) \/ ~IsStr(file_path)
    THEN RaiseFileFormatError(PyStr(file_path), "invalid_path", "None")
    ELSE LET file == PathStr(file_path.s)
             tried == IF EndsWith(file, ExtCsv) \/ EndsWith(file, ExtJson)
                         \/ EndsWith(file, ExtJsonl)
                      THEN Read(file, disk)
                      ELSE [kind |-> "raise", cls |-> "FileFormatError"]
         IN  IF tried.kind = "return"
             THEN [kind |-> "return", cls |-> "DataFrame", file |-> file,
                   frame |-> tried.frame]
             ELSE ExceptClauses(tried.cls, "unsupported_format", file)

\* FileFormatError.to_dict()
to_dict(e) ==
    [file |-> e.file, kind |-> "file_format", error_code |-> e.error_code,
     original_error |-> e.original]

\* The dict load_all_logs builds in its except Exception clause
error_dict(file_path, e) ==
    [file |-> PyStr(file_path), kind |-> "unknown_error", error_code |-> "unknown",
     original_error |-> e.cls]

\* pd.concat(frames, ignore_index=True): the rows in order, over the union of
\* the columns, NaN where a frame lacks a column
RECURSIVE ConcatRows(_, _, _)
ConcatRows(frames, k, columns) ==
    IF k > Len(frames) THEN <<>>
    ELSE [r \in 1..Len(frames[k].rows) |->
             [c \in columns |-> IF c \in frames[k].columns
                                THEN frames[k].rows[r][c] ELSE NaN]]
         \o ConcatRows(frames, k + 1, columns)

concat(frames) ==
    LET columns == UNION {frames[k].columns : k \in 1..Len(frames)}
    IN  [columns |-> columns, rows |-> ConcatRows(frames, 1, columns)]

DiskCsv == {"ok", "FileNotFoundError", "ParserError", "UnicodeDecodeError", "EmptyDataError"}
DiskJson == {"ok", "FileNotFoundError", "JSONDecodeError", "UnicodeDecodeError", "ValueError"}

Source(path, disk) == [path |-> path, disk |-> disk]

\* The entries a list given to load_all_logs is made of
ListSources ==
    {Source(Str(PathCsv), d) : d \in DiskCsv}
    \cup {Source(Str(PathJson), d) : d \in DiskJson}
    \cup {Source(Str(PathJsonl), d) : d \in {"ok", "ValueError"}}
    \cup {Source(Str(PathTxt), "ok"), Source(Str(<<>>), "FileNotFoundError"),
          Source(None, "FileNotFoundError"), Source(PyInt(7), "FileNotFoundError")}

\* The arguments of direct calls of load_logs
SingleSources ==
    ListSources \cup {Source(Str(PathCsvSlash), d) : d \in DiskCsv}
                \cup {Source(NaN, "FileNotFoundError")}

CallLoadLogs ==
    /\ pc = "idle"
    /\ \E src \in SingleSources :
          /\ call' = [fn |-> "load_logs", arg |-> src]
          /\ result' = load_logs(src.path, src.disk)
          /\ loads' = <<load_logs(src.path, src.disk)>>
    /\ pc' = "done"
    /\ UNCHANGED <<vacVars, file_paths, path_i, all_dataframes, all_errors>>

CallLoadAllLogs ==
    /\ pc = "idle"
    /\ \E paths \in SeqsUpTo(ListSources, MaxPaths) : file_paths' = paths
    /\ call' = [fn |-> "load_all_logs"]
    /\ all_dataframes' = <<>>
    /\ all_errors' = <<>>
    /\ path_i' = 0
    /\ loads' = <<>>
    /\ pc' = "lal_loop"
    /\ UNCHANGED <<result, vacVars>>

HasPath == pc = "lal_loop" /\ path_i < Len(file_paths)
Src == file_paths[path_i + 1]
\* load_logs(str(file_path))
Loaded == load_logs(Str(PyStr(Src.path)), Src.disk)

\* Mutant of LalSkip: an empty path is recorded as an error
LalSkipAsError ==
    /\ HasPath
    /\ ~Truthy(Src.path)
    /\ all_errors' = Append(all_errors, error_dict(Src.path, Raise("ValueError", <<>>)))
    /\ path_i' = path_i + 1
    /\ UNCHANGED <<pc, call, result, vacVars, file_paths, all_dataframes, loads>>

\* if not file_path: continue
LalSkip ==
    /\ HasPath
    /\ ~Truthy(Src.path)
    /\ path_i' = path_i + 1
    /\ UNCHANGED <<pc, call, result, vacVars, file_paths, all_dataframes, all_errors, loads>>

\* load_logs returned: all_dataframes.append(df)
LalLoaded ==
    /\ HasPath
    /\ Truthy(Src.path)
    /\ Loaded.kind = "return"
    /\ all_dataframes' = Append(all_dataframes, Loaded.frame)
    /\ loads' = Append(loads, Loaded)
    /\ path_i' = path_i + 1
    /\ UNCHANGED <<pc, call, result, vacVars, file_paths, all_errors>>

\* except FileFormatError as e: all_errors.append(e.to_dict())
LalFileFormatError ==
    /\ HasPath
    /\ Truthy(Src.path)
    /\ Loaded.kind = "raise"
    /\ IsInstance(Loaded.cls, "FileFormatError")
    /\ all_errors' = Append(all_errors, to_dict(Loaded))
    /\ loads' = Append(loads, Loaded)
    /\ path_i' = path_i + 1
    /\ UNCHANGED <<pc, call, result, vacVars, file_paths, all_dataframes>>

\* Mutant of LalOtherError: nothing catches the exception, it ends the call
LalOtherErrorUncaught ==
    /\ HasPath
    /\ Truthy(Src.path)
    /\ Loaded.kind = "raise"
    /\ ~IsInstance(Loaded.cls, "FileFormatError")
    /\ result' = Loaded
    /\ loads' = Append(loads, Loaded)
    /\ pc' = "done"
    /\ UNCHANGED <<call, vacVars, file_paths, path_i, all_dataframes, all_errors>>

\* except Exception as e: all_errors.append(error_dict)
LalOtherError ==
    /\ HasPath
    /\ Truthy(Src.path)
    /\ Loaded.kind = "raise"
    /\ ~IsInstance(Loaded.cls, "FileFormatError")
    /\ IsInstance(Loaded.cls, "Exception")
    /\ all_errors' = Append(all_errors, error_dict(Src.path, Loaded))
    /\ loads' = Append(loads, Loaded)
    /\ path_i' = path_i + 1
    /\ UNCHANGED <<pc, call, result, vacVars, file_paths, all_dataframes>>

\* After the loop: the concatenation, or an empty DataFrame, with the errors
LalReturn ==
    /\ pc = "lal_loop"
    /\ path_i = Len(file_paths)
    /\ result' = [kind |-> "return", cls |-> "tuple",
                  frame |-> IF Len(all_dataframes) # 0
                            THEN concat(all_dataframes) ELSE EmptyFrame,
                  errors |-> all_errors]
    /\ pc' = "done"
    /\ UNCHANGED <<call, vacVars, loaderVars>>

Next ==
    \/ CallValidateTimestamp
    \/ CallValidateUser
    \/ CallValidateRequiredFields
    \/ CallValidateAndClean
    \/ VacRowAttributeError
    \/ VacRowClean
    \/ VacRowSchemaError
    \/ VacRowUncaught
    \/ VacReturn
    \/ CallLoadLogs
    \/ CallLoadAllLogs
    \/ LalSkip
    \/ LalLoaded
    \/ LalFileFormatError
    \/ LalOtherError
    \/ LalReturn

Spec == Init /\ [][Next]_vars

(***************************************************************************)
(* Properties.                                                             *)
(***************************************************************************)
InValidateAndClean == call.fn = "validate_and_clean"
Finished(fn) == pc = "done" /\ call.fn = fn

SumCounts(counts) ==
    counts.missing_required_fields + counts.timestamp_errors + counts.user_errors
    + counts.src_ip_errors + counts.action_errors + counts.other_schema_errors

CleanIndices == {clean_index[k] : k \in 1..Len(clean_index)}
BadIndices == {bad_rows_list[k].row_index : k \in 1..Len(bad_rows_list)}

\* C1: while validate_and_clean runs, after every row the number of rows
\* processed equals len(clean_rows) + len(bad_rows_list), the values of
\* error_counts sum to len(bad_rows_list), no row index is in both lists, and
\* when the loop ends every row of the frame has been processed.
C1_CountersConsistent ==
    InValidateAndClean =>
        /\ row_i = Len(clean_rows) + Len(bad_rows_list)
        /\ SumCounts(error_counts) = Len(bad_rows_list)
        /\ Len(clean_index) = Len(clean_rows)
        /\ CleanIndices \cap BadIndices = {}
        /\ (pc = "done" /\ result.kind = "return" => row_i = Len(df.rows))

C1_Witness ==
    /\ Finished("validate_and_clean")
    /\ result.kind = "return"
    /\ Len(clean_rows) >= 1
    /\ Len(bad_rows_list) >= 1

\* C2: when validate_and_clean has ended on a frame that has every column
\* the loop reads, every row has exactly one verdict: its index is in the
\* clean list or in the quarantine list, whatever validator an earlier row
\* failed.
C2_EveryRowGetsVerdict ==
    (Finished("validate_and_clean") /\ MissingAttrs(df) = {}) =>
        \A i \in 0..(Len(df.rows) - 1) : (i \in CleanIndices) # (i \in BadIndices)

\* The error kind and the field the claim C3 gives to a failing validator
KindOf(fn) ==
    CASE fn = "validate_required_fields" -> "missing_required_fields"
      [] fn = "validate_timestamp" -> "timestamp_errors"
      [] OTHER -> "user_errors"

FieldOf(failed) ==
    CASE failed.fn = "validate_required_fields" -> Name(failed.out.msg[2])
      [] failed.fn = "validate_timestamp" -> Name("timestamp")
      [] OTHER -> Name("user")

\* C3: after an iteration in which a validator raised, the row is the last
\* quarantine entry, with the error kind and field of the validator that
\* raised, and the counter of each kind equals the number of entries of
\* that kind.
C3_FirstFailureKind ==
    (InValidateAndClean /\ evaluated # <<>> /\ Last(evaluated).out.kind = "raise") =>
        /\ bad_rows_list # <<>>
        /\ Last(bad_rows_list).error_type = KindOf(Last(evaluated).fn)
        /\ Last(bad_rows_list).field = FieldOf(Last(evaluated))
        /\ \A kind \in DOMAIN error_counts :
              error_counts[kind] =
                  Cardinality({k \in 1..Len(bad_rows_list) :
                                  bad_rows_list[k].error_type = kind})

DeclaredFormats == <<Fmt1, Fmt2, Fmt3>>
MatchesSomeFormat(value) ==
    /\ IsStr(value)
    /\ \E k \in 1..Len(DeclaredFormats) : strptime(value.s, DeclaredFormats[k])

\* C4: validate_timestamp raises TimestampParseError for None, for every
\* value that is not a str, for "" and for a str no declared format parses;
\* and no record of clean_rows has such a timestamp.
C4_InvalidTimestampRaises ==
    /\ (Finished("validate_timestamp") /\ ~MatchesSomeFormat(call.arg)) =>
           (result.kind = "raise" /\ result.cls = "TimestampParseError")
    /\ InValidateAndClean =>
           \A k \in 1..Len(clean_rows) : MatchesSomeFormat(clean_rows[k]["timestamp"])

MissingRequired(row) == IsNone(row["timestamp"]) \/ IsNone(row["user"])

\* The position in df.rows of the row of the last iteration
LastRowPos == IF result.kind = "raise" THEN row_i + 1 ELSE row_i

FormatOrders ==
    {[i \in 1..Len(DeclaredFormats) |-> DeclaredFormats[p[i]]] :
        p \in Permutations(1..Len(DeclaredFormats))}

\* C8: for a non-empty str, validate_timestamp returns True when some
\* declared format parses it, and the outcome is the same for every order
\* of the format list.
C8_FormatOrderIndependent ==
    (Finished("validate_timestamp") /\ IsStr(call.arg) /\ call.arg.s # <<>>) =>
        /\ MatchesSomeFormat(call.arg) => result = Return(True)
        /\ \A formats \in FormatOrders :
              validate_timestamp_with(call.arg, formats) = result

C8_Witness ==
    /\ Finished("validate_timestamp")
    /\ call.arg = Str(TsMicro)
    /\ result.kind = "return"

\* The file a list entry names, and whether load_logs can load it
FileOf(src) == PathStr(PyStr(src.path))
Loadable(src) ==
    /\ src.disk = "ok"
    /\ \E ext \in {ExtCsv, ExtJson, ExtJsonl} : EndsWith(FileOf(src), ext)

\* For each row of the frames of the loadable entries, in list order: the
\* file it comes from and its timestamp
RECURSIVE ExpectedRows(_, _)
ExpectedRows(paths, k) ==
    IF k > Len(paths) THEN <<>>
    ELSE (IF Truthy(paths[k].path) /\ Loadable(paths[k])
          THEN [r \in 1..Len(FrameOnDisk(FileOf(paths[k])).rows) |->
                   [file |-> FileOf(paths[k]),
                    timestamp |-> FrameOnDisk(FileOf(paths[k])).rows[r].timestamp]]
          ELSE <<>>)
         \o ExpectedRows(paths, k + 1)

\* The files of the non-empty entries that cannot be loaded, in list order
RECURSIVE ExpectedFailures(_, _)
ExpectedFailures(paths, k) ==
    IF k > Len(paths) THEN <<>>
    ELSE (IF Truthy(paths[k].path) /\ ~Loadable(paths[k])
          THEN <<FileOf(paths[k])>> ELSE <<>>)
         \o ExpectedFailures(paths, k + 1)

RowOrigin(row) ==
    [file |-> IF "user" \in DOMAIN row /\ IsStr(row["user"])
              THEN row["user"].s ELSE row["event_id"].s,
     timestamp |-> row["timestamp"]]

\* C9: load_all_logs never ends with an exception; when it returns it has
\* gone through the whole list and called load_logs for every non-empty
\* entry, the frame holds the rows of every loadable
\* entry in list order and the error list holds one entry per non-empty
\* entry that failed, in list order.
C9_FailuresDoNotAbort ==
    call.fn = "load_all_logs" =>
        /\ result.kind # "raise"
        /\ pc = "done" =>
              /\ path_i = Len(file_paths)
              /\ Len(loads) = Cardinality({k \in 1..Len(file_paths) :
                                              Truthy(file_paths[k].path)})
              /\ [r \in 1..Len(result.frame.rows) |-> RowOrigin(result.frame.rows[r])]
                    = ExpectedRows(file_paths, 1)
              /\ [k \in 1..Len(result.errors) |-> result.errors[k].file]
                    = ExpectedFailures(file_paths, 1)

C9_Witness ==
    /\ Finished("load_all_logs")
    /\ Len(file_paths) = 2
    /\ file_paths[1] = Source(Str(PathCsv), "UnicodeDecodeError")
    /\ file_paths[2] = Source(Str(PathJson), "ok")
    /\ Len(result.frame.rows) = 1
    /\ Len(result.errors) = 1

ErrorCodes ==
    {"file_not_found", "unsupported_format", "parsing_error", "encoding_error", "unknown"}

\* C10: every call of load_logs that fails raises FileFormatError with an
\* error_code among file_not_found, unsupported_format, parsing_error,
\* encoding_error and unknown.
C10_LoadLogsFailures ==
    \A k \in 1..Len(loads) :
        loads[k].kind = "raise" =>
            /\ loads[k].cls = "FileFormatError"
            /\ loads[k].error_code \in ErrorCodes

ReportKeys ==
    {"total_rows", "clean_rows", "bad_rows", "bad_rows_list", "error_counts", "null_rates"}

\* C11: when validate_and_clean returns, it returns the clean set with a
\* report that has the keys total_rows, clean_rows, bad_rows, bad_rows_list,
\* error_counts and null_rates, where total_rows is the number of rows of
\* the frame, bad_rows is len(bad_rows_list) and bad_rows_list is the list
\* of quarantine entries built during the pass.
C11_ReturnsReport ==
    (Finished("validate_and_clean") /\ result.kind = "return") =>
        /\ result.cls = "tuple"
        /\ {"clean", "report"} \subseteq DOMAIN result
        /\ ReportKeys \subseteq DOMAIN result.report
        /\ result.report.total_rows = Len(df.rows)
        /\ result.report.bad_rows = Len(bad_rows_list)
        /\ result.report.bad_rows_list = bad_rows_list

\* The number of rows of the frame in which a field is absent, None or NaN
NullCount(field) ==
    Cardinality({i \in 1..Len(df.rows) :
                    \/ field \notin DOMAIN df.rows[i]
                    \/ IsNone(df.rows[i][field])
                    \/ df.rows[i][field] = NaN})

\* C12: when validate_and_clean returns on a frame with at least one row,
\* the report's null_rates gives, for every field of the schema, the number
\* of rows in which the field is null or absent times 100 divided by the
\* number of rows, clean and quarantined rows together.
C12_NullRates ==
    (Finished("validate_and_clean") /\ result.kind = "return" /\ Len(df.rows) > 0) =>
        /\ "report" \in DOMAIN result
        /\ "null_rates" \in DOMAIN result.report
        /\ \A field \in SchemaColumns :
              result.report.null_rates[field] * Len(df.rows) = 100 * NullCount(field)

\* C13: a row with None for timestamp is quarantined with field
\* 'timestamp' (also when user is None too), a row with None for user only
\* with field 'user', and no quarantine entry of kind missing_required_fields
\* has None for its field.
C13_FirstMissingFieldNamed ==
    (InValidateAndClean /\ MissingAttrs(df) = {}) =>
        /\ \A k \in 1..Len(bad_rows_list) :
              LET row == df.rows[bad_rows_list[k].row_index + 1]
              IN  /\ IsNone(row["timestamp"]) =>
                         bad_rows_list[k].field = Name("timestamp")
                  /\ (~IsNone(row["timestamp"]) /\ IsNone(row["user"])) =>
                         bad_rows_list[k].field = Name("user")
        /\ \A k \in 1..Len(bad_rows_list) :
              bad_rows_list[k].error_type = "missing_required_fields" =>
                  ~IsNone(bad_rows_list[k].field)

\* C14: every record of clean_rows has the field names and the values of
\* the row of the frame it was built from.
C14_CleanRecordUnchanged ==
    InValidateAndClean =>
        \A k \in 1..Len(clean_rows) :
            LET row == df.rows[clean_index[k] + 1]
            IN  /\ DOMAIN clean_rows[k] = DOMAIN row
                /\ \A c \in DOMAIN row : clean_rows[k][c] = row[c]

NonEmptySoFar == {k \in 1..path_i : Truthy(file_paths[k].path)}

\* C15: in load_all_logs every non-empty entry consumed so far has had
\* exactly one load_logs call, which gave one DataFrame or one error dict
\* and not both, so the DataFrames and the error dicts together number the
\* non-empty entries; an empty or None entry adds to neither list; and when
\* no DataFrame was loaded the call returns an empty DataFrame with all the
\* error dicts.
C15_OneOutcomePerPath ==
    call.fn = "load_all_logs" =>
        /\ Len(loads) = Cardinality(NonEmptySoFar)
        /\ Len(all_dataframes) =
              Cardinality({k \in 1..Len(loads) : loads[k].kind = "return"})
        /\ Len(all_errors) =
              Cardinality({k \in 1..Len(loads) : loads[k].kind = "raise"})
        /\ Len(all_dataframes) + Len(all_errors) = Cardinality(NonEmptySoFar)
        /\ (pc = "done" /\ Len(all_dataframes) = 0) =>
              /\ result.frame = EmptyFrame
              /\ result.errors = all_errors
              /\ Len(result.errors) =
                    Cardinality({k \in 1..Len(file_paths) : Truthy(file_paths[k].path)})

C15_Witness ==
    /\ Finished("load_all_logs")
    /\ Len(file_paths) = 2
    /\ IsNone(file_paths[1].path)
    /\ file_paths[2] = Source(Str(PathCsv), "FileNotFoundError")
    /\ result.frame = EmptyFrame
    /\ Len(result.errors) = 1

====
